---- MODULE Spec2Model ----
(***************************************************************************)
(* git-diary: a diary document is generated from the HEAD reflog of a      *)
(* repository, summarised by a chat-completion provider and saved as a     *)
(* Markdown file.                                                          *)
(*                                                                         *)
(* Strings are sequences of characters (one-character strings), so that    *)
(* formatting, replacing and concatenation are computed, not assumed.      *)
(* Timestamps are epoch seconds.                                           *)
(***************************************************************************)
EXTENDS Integers, Sequences, FiniteSets, TLC

(***************************************************************************)
(* Characters and string helpers                                           *)
(***************************************************************************)
NL == "\n"
EnDash == "u2013"

RECURSIVE Flatten(_)
\* concatenation of a sequence of strings (format! / push_str / join(""))
Flatten(ss) == IF ss = <<>> THEN <<>> ELSE Head(ss) \o Flatten(Tail(ss))

Digit(d) == CASE d = 0 -> "0" [] d = 1 -> "1" [] d = 2 -> "2" [] d = 3 -> "3"
              [] d = 4 -> "4" [] d = 5 -> "5" [] d = 6 -> "6" [] d = 7 -> "7"
              [] d = 8 -> "8" [] d = 9 -> "9"

RECURSIVE Decimal(_)
\* "{}" of a non-negative integer
Decimal(n) == IF n < 10 THEN <<Digit(n)>> ELSE Decimal(n \div 10) \o <<Digit(n % 10)>>

RECURSIVE ZeroPad(_, _)
\* "%02d"-style zero padding to width w
ZeroPad(s, w) == IF Len(s) >= w THEN s ELSE ZeroPad(<<"0">> \o s, w)

IsPrefix(p, s) == Len(p) <= Len(s) /\ SubSeq(s, 1, Len(p)) = p

RECURSIVE Replace(_, _, _)
\* str::replace(from, to): every non-overlapping match of `from`, left to
\* right, is replaced by `to`; everything else is copied.
Replace(s, from, to) ==
    IF s = <<>> THEN <<>>
    ELSE IF from # <<>> /\ IsPrefix(from, s)
         THEN to \o Replace(SubSeq(s, Len(from) + 1, Len(s)), from, to)
         ELSE <<Head(s)>> \o Replace(Tail(s), from, to)

(***************************************************************************)
(* chrono: epoch seconds -> calendar date and time of day                  *)
(***************************************************************************)
SecsPerDay == 86400
\* chrono accepts dates of the years -262143 .. 262142 only, as day numbers
\* counted from 1970-01-01
MinDay == -96465292
MaxDay == 95026236

\* civil date of a day number counted from 1970-01-01 (proleptic Gregorian)
CivilFromDays(days) ==
    LET z   == days + 719468
        era == z \div 146097
        doe == z - era * 146097
        yoe == (doe - doe \div 1460 + doe \div 36524 - doe \div 146096) \div 365
        doy == doe - (365 * yoe + yoe \div 4 - yoe \div 100)
        mp  == (5 * doy + 2) \div 153
        d   == doy - (153 * mp + 2) \div 5 + 1
        m   == IF mp < 10 THEN mp + 3 ELSE mp - 9
        y   == yoe + era * 400 + (IF m <= 2 THEN 1 ELSE 0)
    IN  [year |-> y, month |-> m, day |-> d]

\* "%Y" of a year: four digits for the years 0..9999, a sign and at least
\* four digits for the others
FormatYear(y) ==
    IF y >= 0 /\ y <= 9999 THEN ZeroPad(Decimal(y), 4)
    ELSE IF y < 0 THEN <<"-">> \o ZeroPad(Decimal(-y), 4)
         ELSE <<"+">> \o ZeroPad(Decimal(y), 4)

\* "%Y-%m-%d" of a day number
FormatDate(days) ==
    LET c == CivilFromDays(days)
    IN  FormatYear(c.year) \o <<"-">> \o ZeroPad(Decimal(c.month), 2)
          \o <<"-">> \o ZeroPad(Decimal(c.day), 2)

\* "%H:%M:%S" of a second of the day
FormatTime(sod) ==
    ZeroPad(Decimal(sod \div 3600), 2) \o <<":">>
      \o ZeroPad(Decimal((sod % 3600) \div 60), 2) \o <<":">>
      \o ZeroPad(Decimal(sod % 60), 2)

None == [some |-> FALSE]
Some(v) == [some |-> TRUE, val |-> v]
UnwrapOr(opt, dflt) == IF opt.some THEN opt.val ELSE dflt

\* DateTime::from_timestamp(days * 86400 + sod, 0).map(format "%Y-%m-%d %H:%M:%S")
DateTimeOfDay(days, sod) ==
    IF days < MinDay \/ days > MaxDay THEN None
    ELSE Some(FormatDate(days) \o <<" ">> \o FormatTime(sod))

(***************************************************************************)
(* domain.rs: Commit                                                       *)
(***************************************************************************)
Commit(message, time) == [message |-> message, time |-> time]

\* Commit::datetime
datetime(c) == DateTimeOfDay(c.time \div SecsPerDay, c.time % SecsPerDay)

InvalidDate == <<"I", "n", "v", "a", "l", "i", "d", " ", "D", "a", "t", "e">>

\* the display form with nothing in place of a date that cannot be formatted
DisplayAtOrEmpty(message, days, sod) ==
    UnwrapOr(DateTimeOfDay(days, sod), <<>>) \o <<":", " ">> \o message

\* impl Display for Commit, of the commit with this message and the time
\* days * 86400 + sod
DisplayAt(message, days, sod) ==
    UnwrapOr(DateTimeOfDay(days, sod), InvalidDate) \o <<":", " ">> \o message

\* impl Display for Commit
Display(c) == DisplayAt(c.message, c.time \div SecsPerDay, c.time % SecsPerDay)

(***************************************************************************)
(* git.rs: GitRepositoryImpl                                               *)
(***************************************************************************)
NoMessage == <<"N", "o", " ", "m", "e", "s", "s", "a", "g", "e">>

Ok(v) == [ok |-> TRUE, val |-> v]
Err(e) == [ok |-> FALSE, err |-> e]

\* a byte that is no UTF-8 text: 0xE9, Latin-1 for e with acute accent
ByteE9 == "xE9"

\* str::from_utf8(bytes).ok()
FromUtf8(bytes) == IF \A i \in 1..Len(bytes) : bytes[i] # ByteE9 THEN Some(bytes) ELSE None

\* git2::ReflogEntry::message of a record whose message bytes are
\* entry.message: None when the record has no message, and when its bytes
\* are not UTF-8
ReflogEntryMessage(entry) ==
    IF entry.message.some THEN FromUtf8(entry.message.val) ELSE None

RECURSIVE ScanReflogPushFirst(_, _)
\* the loop with the record pushed before its time is tested
ScanReflogPushFirst(records, timestamp) ==
    IF records = <<>> THEN <<>>
    ELSE <<Commit(UnwrapOr(ReflogEntryMessage(Head(records)), <<"N", "o", " ", "m", "e", "s", "s", "a", "g", "e">>),
                  Head(records).time)>>
           \o (IF Head(records).time < timestamp THEN <<>>
               ELSE ScanReflogPushFirst(Tail(records), timestamp))

RECURSIVE ScanReflogContinue(_, _)
\* the loop with `continue` in place of `break`: a record older than
\* `timestamp` is skipped and the records behind it are still read
ScanReflogContinue(records, timestamp) ==
    IF records = <<>> THEN <<>>
    ELSE IF Head(records).time < timestamp THEN ScanReflogContinue(Tail(records), timestamp)
         ELSE <<Commit(UnwrapOr(ReflogEntryMessage(Head(records)), <<"N", "o", " ", "m", "e", "s", "s", "a", "g", "e">>),
                       Head(records).time)>>
                \o ScanReflogContinue(Tail(records), timestamp)

RECURSIVE ScanReflog(_, _)
\* the for loop of get_commits_since over the reflog records still ahead
\* (newest record first): it ends at the first record older than `timestamp`
ScanReflog(records, timestamp) ==
    IF records = <<>> THEN <<>>
    ELSE IF Head(records).time < timestamp THEN <<>>
         ELSE <<Commit(UnwrapOr(ReflogEntryMessage(Head(records)), NoMessage), Head(records).time)>>
                \o ScanReflog(Tail(records), timestamp)

\* the call with the errors of Repository::open / reflog("HEAD") dropped:
\* the entries read so far, none
get_commits_since_or_default(repo, records, timestamp) ==
    IF repo # "ok" THEN Ok(<<>>) ELSE Ok(ScanReflog(records, timestamp))

\* GitRepository::get_commits_since on a repository in state `repo`
\* ("ok", or the git2 error that Repository::open / reflog("HEAD") raises)
get_commits_since(repo, records, timestamp) ==
    IF repo # "ok" THEN Err(<<repo>>) ELSE Ok(ScanReflog(records, timestamp))

(***************************************************************************)
(* storage.rs: DiaryStorageImpl, the two pure operations                   *)
(***************************************************************************)
DiaryContent(commits, summary, start_date, end_date) ==
    [commits |-> commits, summary |-> summary,
     start_date |-> start_date, end_date |-> end_date]

RECURSIVE ReplaceFirst(_, _, _)
\* str::replacen(from, to, 1)
ReplaceFirst(s, from, to) ==
    IF s = <<>> THEN <<>>
    ELSE IF from # <<>> /\ IsPrefix(from, s)
         THEN to \o SubSeq(s, Len(from) + 1, Len(s))
         ELSE <<Head(s)>> \o ReplaceFirst(Tail(s), from, to)

\* generate_file_name with only the first '-' of each date removed
generate_file_name_first(base_dir, content) ==
    Flatten(<< base_dir,
               <<"/", "g", "i", "t", "-", "d", "i", "a", "r", "y", "-">>,
               ReplaceFirst(content.start_date, <<"-">>, <<>>),
               <<"-", "t", "o", "-">>,
               ReplaceFirst(content.end_date, <<"-">>, <<>>),
               <<".", "m", "d">> >>)

\* DiaryStorage::generate_file_name
generate_file_name(base_dir, content) ==
    Flatten(<< base_dir,
               <<"/", "g", "i", "t", "-", "d", "i", "a", "r", "y", "-">>,
               Replace(content.start_date, <<"-">>, <<>>),
               <<"-", "t", "o", "-">>,
               Replace(content.end_date, <<"-">>, <<>>),
               <<".", "m", "d">> >>)

RECURSIVE CommitLogsForward(_)
\* the loop over commits.iter(), without rev()
CommitLogsForward(commits) ==
    IF commits = <<>> THEN <<>>
    ELSE <<"-", " ">> \o Display(Head(commits)) \o <<NL>>
           \o CommitLogsForward(Tail(commits))

RECURSIVE CommitLogs(_)
\* the loop of format_markdown_content: commits.iter().rev(), one
\* "- {}\n" per commit
CommitLogs(commits) ==
    IF commits = <<>> THEN <<>>
    ELSE <<"-", " ">> \o Display(commits[Len(commits)]) \o <<NL>>
           \o CommitLogs(SubSeq(commits, 1, Len(commits) - 1))

\* the document with its two sections exchanged: the summary section first
format_markdown_content_summary_first(content) ==
    Flatten(<< <<"#", " ", "G", "i", "t", " ", "D", "i", "a", "r", "y", " ", "(">>,
               content.start_date, <<" ", EnDash, " ">>, content.end_date,
               <<")", NL, NL, "#", "#", " ", "A", "I", "-", "g", "e", "n", "e", "r",
                 "a", "t", "e", "d", " ", "S", "u", "m", "m", "a", "r", "y", NL, NL>>,
               content.summary,
               <<NL, NL, "#", "#", " ", "C", "o", "m", "m", "i", "t", " ",
                 "L", "o", "g", "s", NL, NL>>,
               CommitLogs(content.commits), <<NL>> >>)

\* DiaryStorage::format_markdown_content
format_markdown_content(content) ==
    Flatten(<< <<"#", " ", "G", "i", "t", " ", "D", "i", "a", "r", "y", " ", "(">>,
               content.start_date, <<" ", EnDash, " ">>, content.end_date,
               <<")", NL, NL, "#", "#", " ", "C", "o", "m", "m", "i", "t", " ",
                 "L", "o", "g", "s", NL, NL>>,
               CommitLogs(content.commits),
               <<NL, NL, "#", "#", " ", "A", "I", "-", "g", "e", "n", "e", "r",
                 "a", "t", "e", "d", " ", "S", "u", "m", "m", "a", "r", "y", NL, NL>>,
               content.summary, <<NL>> >>)

(***************************************************************************)
(* The filesystem under save_diary: the set of directories that exist and  *)
(* the files with their contents.  The working directory is the empty      *)
(* path and always exists.                                                 *)
(***************************************************************************)
Cwd == <<>>

\* the indices of the '/' separators of a path
Slashes(path) == {i \in 1..Len(path) : path[i] = "/"}

\* Path::parent: the path up to its last '/', the working directory when
\* it has none
ParentDir(path) ==
    IF Slashes(path) = {} THEN Cwd
    ELSE LET last == CHOOSE i \in Slashes(path) : \A j \in Slashes(path) : j <= i
         IN  SubSeq(path, 1, last - 1)

\* Path::exists
PathExists(d, f, path) == path = Cwd \/ path \in d \/ path \in DOMAIN f

\* fs::create_dir_all: the directory and every missing ancestor
CreateDirAll(d, path) ==
    d \cup {path} \cup {SubSeq(path, 1, i - 1) : i \in {j \in Slashes(path) : j > 1}}

\* File::create can open `path` for writing: its parent is a directory and
\* the path itself is none
CanCreate(d, path) == (ParentDir(path) = Cwd \/ ParentDir(path) \in d) /\ path \notin d

\* the file `path` opened without truncation: `data` written over its
\* beginning, what it held beyond that left in place
WriteFileNoTruncate(f, path, data) ==
    [q \in DOMAIN f \cup {path} |->
        IF q # path THEN f[q]
        ELSE IF path \in DOMAIN f /\ Len(f[path]) > Len(data)
             THEN data \o SubSeq(f[path], Len(data) + 1, Len(f[path]))
             ELSE data]

\* the file `path` written only when there is none yet
WriteFileKeepExisting(f, path, data) ==
    [q \in DOMAIN f \cup {path} |-> IF q \in DOMAIN f THEN f[q] ELSE data]

\* the file `path` created or truncated and holding `data`
WriteFile(f, path, data) ==
    [q \in DOMAIN f \cup {path} |-> IF q = path THEN data ELSE f[q]]

\* anyhow::Context: the io error under the context message (an anyhow
\* error is its chain of messages, the outermost first)
StorageError(context) == <<context, "io::Error">>

\* what a failing write_all may leave in the file: nothing, or all but the
\* last byte (two of the prefixes it can leave)
PartialWrites(doc) == {<<>>} \cup (IF doc = <<>> THEN {} ELSE {SubSeq(doc, 1, Len(doc) - 1)})

\* what the environment does to the io calls of one save_diary: all succeed,
\* or one of them fails
IoOutcomes(doc) ==
    {[fault |-> x, partial |-> <<>>] : x \in {"none", "create_dir_all", "File::create"}}
      \cup {[fault |-> "write_all", partial |-> p] : p \in PartialWrites(doc)}

\* DiaryStorage::save_diary on the filesystem (d, f); `fault` names the io
\* call the environment makes fail, `partial` what a failing write_all
\* leaves behind.  The result and the filesystem afterwards.
save_diary(base_dir, content, d, f, fault, partial) ==
    LET file_name == generate_file_name(base_dir, content)
        mkdir     == ~PathExists(d, f, base_dir)
        d1        == IF mkdir THEN CreateDirAll(d, base_dir) ELSE d
        doc       == format_markdown_content(content)
    IN  IF mkdir /\ fault = "create_dir_all"
        THEN [result |-> Err(StorageError("Failed to create diary directory")),
              dirs |-> d, files |-> f]
        ELSE IF fault = "File::create" \/ ~CanCreate(d1, file_name)
        THEN [result |-> Err(StorageError("Failed to create diary file")),
              dirs |-> d1, files |-> f]
        ELSE IF fault = "write_all"
        THEN [result |-> Err(StorageError("Failed to write to diary file")),
              dirs |-> d1, files |-> WriteFile(f, file_name, partial)]
        ELSE [result |-> Ok(file_name),
              dirs |-> d1, files |-> WriteFile(f, file_name, doc)]

(***************************************************************************)
(* ai.rs: AISummarizerImpl                                                 *)
(***************************************************************************)
NoContent == <<"N", "o", " ", "c", "o", "n", "t", "e", "n", "t">>

RECURSIVE JoinLines(_)
\* Vec<String>::join("\n")
JoinLines(ss) ==
    IF ss = <<>> THEN <<>>
    ELSE IF Len(ss) = 1 THEN Head(ss)
         ELSE Head(ss) \o <<NL>> \o JoinLines(Tail(ss))

\* the fixed instruction message, as one token
Instruction == <<"You are an expert software development analyst. ...">>

\* the request with the entries in reverse order
BuildRequestReversed(commits) ==
    << Instruction,
       <<"C", "o", "m", "m", "i", "t", " ", "m", "e", "s", "s", "a", "g", "e",
         "s", " ", "t", "o", " ", "s", "u", "m", "m", "a", "r", "i", "z", "e",
         ":", NL, NL>>
         \o JoinLines([i \in 1..Len(commits) |-> Display(commits[Len(commits) + 1 - i])]) >>

\* the two messages of the request, in order
BuildRequest(commits) ==
    << Instruction,
       <<"C", "o", "m", "m", "i", "t", " ", "m", "e", "s", "s", "a", "g", "e",
         "s", " ", "t", "o", " ", "s", "u", "m", "m", "a", "r", "i", "z", "e",
         ":", NL, NL>>
         \o JoinLines([i \in 1..Len(commits) |-> Display(commits[i])]) >>

RECURSIVE JoinChoicesSkipEmpty(_)
\* the loop with the choices without content left out
JoinChoicesSkipEmpty(choices) ==
    IF choices = <<>> THEN <<>>
    ELSE (IF Head(choices).some THEN Head(choices).val ELSE <<>>)
           \o JoinChoicesSkipEmpty(Tail(choices))

RECURSIVE JoinChoices(_)
\* the loop over response.choices: each content, or "No content", appended
JoinChoices(choices) ==
    IF choices = <<>> THEN <<>>
    ELSE UnwrapOr(Head(choices), NoContent) \o JoinChoices(Tail(choices))

\* AISummarizer::summarize_commits given what the provider answers to the
\* request: Err(e), or Ok(choices)
summarize_commits(commits, response) ==
    IF response.ok THEN Ok(JoinChoices(response.val)) ELSE Err(<<response.err>>)

(***************************************************************************)
(* domain.rs: DiaryGenerator                                               *)
(***************************************************************************)
RECURSIVE LogLinesForward(_)
\* the loop over commits.iter(), without rev()
LogLinesForward(commits) ==
    IF commits = <<>> THEN <<>>
    ELSE Display(Head(commits)) \o <<NL>> \o LogLinesForward(Tail(commits))

RECURSIVE LogLines(_)
\* the loop of format_commit_logs: commits.iter().rev(), one "{}\n" each
LogLines(commits) ==
    IF commits = <<>> THEN <<>>
    ELSE Display(commits[Len(commits)]) \o <<NL>>
           \o LogLines(SubSeq(commits, 1, Len(commits) - 1))

\* DiaryGenerator::format_commit_logs
format_commit_logs(days, commits) ==
    <<"L", "a", "s", "t", " ">> \o Decimal(days)
      \o <<" ", "d", "a", "y", "s", " ", "c", "o", "m", "m", "i", "t", "s", ":", NL>>
      \o LogLines(commits)

\* DateTime<Local>::format("%Y-%m-%d") of the instant `t` at UTC offset `offset`
LocalDate(t, offset) == FormatDate((t + offset) \div SecsPerDay)

(***************************************************************************)
(* State                                                                   *)
(***************************************************************************)
VARIABLES
    reflog,          \* the HEAD reflog records, newest first: [message, time]
    repo,            \* "ok", or the git2 error opening/reading it raises
    wall,            \* the system clock, epoch seconds
    offset,          \* the UTC offset of the local time zone, seconds
    dirs,            \* filesystem: the directories that exist
    files,           \* filesystem: path -> content of the files that exist
    base_dir,        \* DiaryStorageImpl.base_dir
    days_to_include, \* DiaryGenerator.days_to_include
    pc,              \* where generate_diary stands
    now,             \* generate_diary: let now
    days_ago,        \* generate_diary: let days_ago
    commits,         \* generate_diary: let commits
    summary,         \* generate_diary: let summary
    result,          \* what generate_diary returned
    calls,           \* the calls generate_diary made, in order, with what each
                     \* returned (Ok(v) for a call that cannot fail): [op, arg, ret]
    stdout,          \* what println! wrote
    arg,             \* the input of the direct calls of a collaborator
    ret              \* the last direct call of a collaborator: [op, arg, val]

world  == <<reflog, repo, offset, base_dir, days_to_include, arg>>
fs     == <<dirs, files>>
run    == <<pc, now, days_ago, commits, summary, result, calls, stdout>>
vars   == <<reflog, repo, wall, offset, dirs, files, base_dir, days_to_include,
            pc, now, days_ago, commits, summary, result, calls, stdout, arg, ret>>

(***************************************************************************)
(* Bounds and the inputs drawn from them                                   *)
(***************************************************************************)
MaxHistory == 2      \* reflog records of a generate_diary run
MaxScan    == 4      \* reflog records of a direct get_commits_since call
MaxChoices == 1      \* choices of a provider response
MaxTicks   == 1      \* seconds the clock may advance during a run

\* 2024-01-01T00:00:00Z, the first commit of the tests
T0 == 1704067200

SeqsUpTo(S, n) == UNION {[1..k -> S] : k \in 0..n}

MsgA == <<"f", "i", "x">>
MsgB == <<"a", "d", "d">>

\* 2024-01-07 18:00:00Z: the 7th in UTC, the 8th at UTC+9
Wall0 == T0 + 6 * SecsPerDay + 18 * 3600

\* record times: before the 7-day window, inside it, inside the 1-day window
RecordTimes == {T0 - SecsPerDay, T0, T0 + 6 * SecsPerDay}
\* the records of a run: one per record time, one without message, and
\* one whose committer time is an hour after the run starts (written
\* before the clock was set back, or while the run is under way)
ReflogRecords ==
    [message : {Some(MsgA)}, time : RecordTimes]
      \cup {[message |-> None, time |-> T0]}
      \cup {[message |-> Some(MsgB), time |-> Wall0 + 3600]}

Pending == [ok |-> FALSE, err |-> <<"<pending>">>]
NoCall == [op |-> "<none>"]
NoArg == "<none>"

GitErrors == {"git2: could not find repository", "git2: reference HEAD has no reflog"}
ProviderErrors == {"provider: network error", "provider: invalid api key"}
SummaryA == <<"o", "k">>
ProviderResponses ==
    {Err(e) : e \in ProviderErrors}
      \cup {Ok(cs) : cs \in SeqsUpTo({None, Some(SummaryA)}, MaxChoices)}

Diaries == <<"d", "i", "a", "r", "i", "e", "s">>

\* the window of a run that starts at the instant w
WindowContent(w, off, days, cs, sm) ==
    DiaryContent(cs, sm, LocalDate(w - days * SecsPerDay, off), LocalDate(w, off))

\* a complete diary an earlier run of the same day left at the same path
OldSummary == <<"o", "l", "d">>
OldDiary(w, off, days) == format_markdown_content(WindowContent(w, off, days, <<>>, OldSummary))

RunIdle ==
    /\ pc = "now" /\ now = 0 /\ days_ago = 0 /\ commits = <<>> /\ summary = <<>>
    /\ result = Pending /\ calls = <<>> /\ stdout = <<>>

Init ==
    /\ repo \in {"ok"} \cup GitErrors
    /\ reflog \in (IF repo = "ok" THEN SeqsUpTo(ReflogRecords, MaxHistory) ELSE {<<>>})
    /\ wall = Wall0
    /\ offset \in {0, 9 * 3600}
    /\ base_dir = Diaries
    /\ days_to_include \in {0, 1, 7}
    /\ \/ dirs = {} /\ files = <<>>
       \/ dirs = {base_dir} /\ files = <<>>
       \/ /\ dirs = {base_dir}
          /\ files = WriteFile(<<>>,
                 generate_file_name(base_dir,
                     WindowContent(wall, offset, days_to_include, <<>>, <<>>)),
                 OldDiary(wall, offset, days_to_include))
    /\ RunIdle
    /\ arg = NoArg
    /\ ret = NoCall

(***************************************************************************)
(* DateTimeProviderImpl (main.rs) and the clock                            *)
(***************************************************************************)
\* DateTimeProvider::now: Local::now()
ClockNow(w) == w

\* DateTimeProvider::days_ago: Local::now() - Duration::days(days)
ClockDaysAgo(w, days) == w - days * SecsPerDay

\* the system clock advances between the two clock readings of a run
Tick ==
    /\ pc = "days_ago"
    /\ wall < Wall0 + MaxTicks
    /\ wall' = wall + 1
    /\ UNCHANGED <<world, fs, run, ret>>

(***************************************************************************)
(* DiaryGenerator::generate_diary, stage by stage                          *)
(***************************************************************************)
Called(op, a, r) == Append(calls, [op |-> op, arg |-> a, ret |-> r])

\* the DiaryContent with the two dates exchanged
AssembleSwapped(cs, sm, start, end) == DiaryContent(cs, sm, LocalDate(end, offset), LocalDate(start, offset))

\* the DiaryContent with the entries put oldest first
AssembleReversed(cs, sm, start, end) ==
    DiaryContent([i \in 1..Len(cs) |-> cs[Len(cs) + 1 - i]], sm,
                 LocalDate(start, offset), LocalDate(end, offset))

\* the DiaryContent generate_diary assembles from its locals
Assemble(cs, sm, start, end) == DiaryContent(cs, sm, LocalDate(start, offset), LocalDate(end, offset))

\* a `?` that puts the error under a context of its own
QuestionContext(r) == Err(<<"Failed to generate diary">> \o r.err)

\* the `?` of generate_diary on a failed call: the error is returned as it
\* is (From<anyhow::Error> for anyhow::Error is the identity)
Question(r) == Err(r.err)

\* Ok of the file name without its directory
FinishFileNameOnly(file_path) == Ok(SubSeq(file_path, Len(base_dir) + 2, Len(file_path)))

\* Ok(file_path)
Finish(file_path) == Ok(file_path)

\* let now = self.datetime_provider.now();
Window_now ==
    /\ pc = "now"
    /\ now' = ClockNow(wall)
    /\ calls' = Called("now", <<>>, Ok(now'))
    /\ pc' = "days_ago"
    /\ UNCHANGED <<world, wall, fs, days_ago, commits, summary, result, stdout, ret>>

\* let days_ago = self.datetime_provider.days_ago(self.days_to_include);
Window_days_ago ==
    /\ pc = "days_ago"
    /\ days_ago' = ClockDaysAgo(wall, days_to_include)
    /\ calls' = Called("days_ago", days_to_include, Ok(days_ago'))
    /\ pc' = "fetch"
    /\ UNCHANGED <<world, wall, fs, now, commits, summary, result, stdout, ret>>

\* the fetch with its error swallowed: unwrap_or_default() in place of `?`
FetchSwallow ==
    /\ pc = "fetch"
    /\ LET r == get_commits_since(repo, reflog, days_ago)
       IN  /\ calls' = Called("get_commits_since", days_ago, r)
           /\ commits' = IF r.ok THEN r.val ELSE <<>>
           /\ pc' = "preview"
    /\ UNCHANGED <<world, wall, fs, now, days_ago, summary, result, stdout, ret>>

\* the fetch followed by an early return when there is nothing to summarise
FetchShortCircuit ==
    /\ pc = "fetch"
    /\ LET r == get_commits_since(repo, reflog, days_ago)
       IN  /\ calls' = Called("get_commits_since", days_ago, r)
           /\ IF r.ok /\ r.val # <<>>
              THEN commits' = r.val /\ pc' = "preview" /\ UNCHANGED result
              ELSE /\ result' = IF r.ok THEN Ok(<<>>) ELSE Question(r)
                   /\ pc' = "done" /\ UNCHANGED commits
    /\ UNCHANGED <<world, wall, fs, now, days_ago, summary, stdout, ret>>

\* let commits = self.git_repo.get_commits_since(days_ago.timestamp())?;
Fetch ==
    /\ pc = "fetch"
    /\ LET r == get_commits_since(repo, reflog, days_ago)
       IN  /\ calls' = Called("get_commits_since", days_ago, r)
           /\ IF r.ok
              THEN commits' = r.val /\ pc' = "preview" /\ UNCHANGED result
              ELSE result' = Question(r) /\ pc' = "done" /\ UNCHANGED commits
    /\ UNCHANGED <<world, wall, fs, now, days_ago, summary, stdout, ret>>

\* let commit_logs = self.format_commit_logs(&commits); println!(..)
Preview ==
    /\ pc = "preview"
    /\ stdout' = Append(stdout, format_commit_logs(days_to_include, commits))
    /\ calls' = Called("format_commit_logs", commits, Ok(stdout'[Len(stdout')]))
    /\ pc' = "summarize"
    /\ UNCHANGED <<world, wall, fs, now, days_ago, commits, summary, result, ret>>

\* the summarizer called again after a failure
SummarizeRetry ==
    /\ pc = "summarize"
    /\ Len(calls) < 8
    /\ \E response \in ProviderResponses :
         LET r == summarize_commits(commits, response)
         IN  /\ calls' = Called("summarize_commits", commits, r)
             /\ IF r.ok
                THEN /\ summary' = r.val
                     /\ stdout' = stdout \o <<<<"Summary:">>, <<"----">>, r.val>>
                     /\ pc' = "persist"
                ELSE UNCHANGED <<pc, summary, stdout>>
    /\ UNCHANGED <<world, wall, fs, now, days_ago, commits, result, ret>>

\* let summary = self.ai_summarizer.summarize_commits(&commits).await?;
\* and the three println! of the summary
Summarize ==
    /\ pc = "summarize"
    /\ \E response \in ProviderResponses :
         LET r == summarize_commits(commits, response)
         IN  /\ calls' = Called("summarize_commits", commits, r)
             /\ IF r.ok
                THEN /\ summary' = r.val
                     /\ stdout' = stdout \o <<<<"Summary:">>, <<"----">>, r.val>>
                     /\ pc' = "persist"
                     /\ UNCHANGED result
                ELSE result' = Question(r) /\ pc' = "done" /\ UNCHANGED <<summary, stdout>>
    /\ UNCHANGED <<world, wall, fs, now, days_ago, commits, ret>>

\* let content = DiaryContent {..}; let file_path = self.storage.save_diary(&content)?;
\* Ok(file_path)
Persist ==
    /\ pc = "persist"
    /\ \E content \in {Assemble(commits, summary, days_ago, now)} :
       \E io \in IoOutcomes(format_markdown_content(content)) :
       \E s \in {save_diary(base_dir, content, dirs, files, io.fault, io.partial)} :
         /\ calls' = Called("save_diary", content, s.result)
         /\ dirs' = s.dirs
         /\ files' = s.files
         /\ stdout' = IF s.result.ok THEN Append(stdout, <<"Diary saved to: ">> \o s.result.val)
                                     ELSE stdout
         /\ result' = IF s.result.ok THEN Finish(s.result.val) ELSE Question(s.result)
         /\ pc' = "done"
    /\ UNCHANGED <<world, wall, now, days_ago, commits, summary, ret>>

Next == Tick \/ Window_now \/ Window_days_ago \/ Fetch \/ Preview \/ Summarize \/ Persist

Spec == Init /\ [][Next]_vars

(***************************************************************************)
(* Direct calls of GitRepository::get_commits_since, on any reflog (the    *)
(* committer times of successive records need not be ordered: the clock    *)
(* can be set back, GIT_COMMITTER_DATE can be set) and any lower bound     *)
(***************************************************************************)
\* "caf\xE9": a message in Latin-1
MsgLatin1 == <<"c", "a", "f", ByteE9>>
ScanRecords ==
    [message : {None, Some(MsgA)}, time : RecordTimes]
      \cup {[message |-> Some(MsgLatin1), time |-> T0]}

\* the lower bounds tried: at, just below and just above each record time
ScanBounds == UNION {{t - 1, t, t + 1} : t \in RecordTimes}

InitScan ==
    /\ repo \in {"ok"} \cup GitErrors
    /\ reflog \in (IF repo = "ok" THEN SeqsUpTo(ScanRecords, MaxScan) ELSE {<<>>})
    /\ wall = Wall0 /\ offset = 0 /\ base_dir = Diaries /\ days_to_include = 7
    /\ dirs = {} /\ files = <<>>
    /\ RunIdle
    /\ arg \in ScanBounds
    /\ ret = NoCall

CallGetCommitsSince ==
    /\ ret' = [op |-> "get_commits_since", arg |-> arg,
               val |-> get_commits_since(repo, reflog, arg)]
    /\ UNCHANGED <<world, wall, fs, run>>

NextScan == CallGetCommitsSince

SpecScan == InitScan /\ [][NextScan]_vars

(***************************************************************************)
(* Direct calls of the two pure operations of DiaryStorage                 *)
(***************************************************************************)
MaxEntries == 3      \* commits of a DiaryContent handed to DiaryStorage

TestDir == <<"t", "e", "s", "t", "_", "d", "i", "r">>
Nested  == <<"a", "/", "b">>

StoreCommits == {Commit(MsgA, T0), Commit(MsgB, T0 + SecsPerDay), Commit(MsgA, T0 + SecsPerDay)}
StartDates == { <<"2", "0", "2", "4", "-", "0", "1", "-", "0", "1">>,
                <<"2", "0", "2", "4", "/", "0", "1", "/", "0", "1">>,
                <<"-", "-">> }
EndDates   == { <<"2", "0", "2", "4", "-", "0", "1", "-", "0", "7">>,
                <<"2", "0", "2", "4", "/", "0", "1", "/", "0", "7">> }
\* a summary of two paragraphs
SummaryB == <<"o", "k", NL, NL, "o", "k">>
StoreContents ==
    {DiaryContent(cs, sm, sd, ed) :
        cs \in SeqsUpTo(StoreCommits, MaxEntries), sm \in {<<>>, SummaryA, SummaryB},
        sd \in StartDates, ed \in EndDates}

InitFormat ==
    /\ base_dir \in {TestDir, Nested}
    /\ repo = "ok" /\ reflog = <<>>
    /\ wall = Wall0 /\ offset = 0 /\ days_to_include = 7
    /\ dirs = {} /\ files = <<>>
    /\ RunIdle
    /\ arg \in StoreContents
    /\ ret = NoCall

CallGenerateFileName ==
    /\ ret' = [op |-> "generate_file_name", arg |-> arg,
               val |-> generate_file_name(base_dir, arg)]
    /\ UNCHANGED <<world, wall, fs, run>>

CallFormatMarkdownContent ==
    /\ ret' = [op |-> "format_markdown_content", arg |-> arg,
               val |-> format_markdown_content(arg)]
    /\ UNCHANGED <<world, wall, fs, run>>

NextFormat == CallGenerateFileName \/ CallFormatMarkdownContent

SpecFormat == InitFormat /\ [][NextFormat]_vars

(***************************************************************************)
(* Direct calls of DiaryStorage::save_diary, one after the other, on a     *)
(* filesystem in which the base directory exists, exists in part or does   *)
(* not exist                                                               *)
(***************************************************************************)
SaveStarts == { <<"2", "0", "2", "4", "-", "0", "1", "-", "0", "1">>,
                <<"2", "0", "2", "4", "/", "0", "1", "/", "0", "1">> }
SaveEnds   == { <<"2", "0", "2", "4", "-", "0", "1", "-", "0", "7">>,
                <<"2", "0", "2", "4", "-", "0", "1", "-", "0", "8">> }
SaveContents ==
    {DiaryContent(c.commits, c.summary, sd, ed) :
        c \in {[commits |-> <<>>, summary |-> <<>>],
               [commits |-> <<Commit(MsgA, T0), Commit(MsgB, T0 + SecsPerDay)>>,
                summary |-> SummaryA]},
        sd \in SaveStarts, ed \in SaveEnds}

\* the directory `path` with its ancestors, or only some of its ancestors,
\* or nothing
DirsTowards(path) ==
    {{}, CreateDirAll({}, path)} \cup {CreateDirAll({}, SubSeq(path, 1, i - 1)) : i \in Slashes(path)}

InitStore ==
    /\ base_dir \in {TestDir, Nested}
    /\ repo = "ok" /\ reflog = <<>>
    /\ wall = Wall0 /\ offset = 0 /\ days_to_include = 7
    /\ dirs \in DirsTowards(base_dir) /\ files = <<>>
    /\ RunIdle
    /\ arg = NoArg
    /\ ret = NoCall

MaxSaves == 2        \* save_diary calls on one DiaryStorageImpl

\* storage.save_diary(&content): the call with the filesystem it ran on, the
\* io fault the environment injected, what it printed and what it returned;
\* `calls` is the sequence of the calls made on this DiaryStorageImpl
CallSaveDiary ==
    /\ Len(calls) < MaxSaves
    /\ \E content \in SaveContents :
       \E io \in IoOutcomes(format_markdown_content(content)) :
       \E s \in {save_diary(base_dir, content, dirs, files, io.fault, io.partial)} :
         /\ ret' = [op |-> "save_diary", arg |-> content, fault |-> io.fault,
                    dirs |-> dirs, files |-> files,
                    out |-> IF s.result.ok THEN <<<<"Diary saved to: ">> \o s.result.val>> ELSE <<>>,
                    val |-> s.result]
         /\ calls' = Called("save_diary", content, s.result)
         /\ dirs' = s.dirs
         /\ files' = s.files
    /\ UNCHANGED <<world, wall, pc, now, days_ago, commits, summary, result, stdout>>

NextStore == CallSaveDiary

SpecStore == InitStore /\ [][NextStore]_vars

(***************************************************************************)
(* Direct calls of AISummarizer::summarize_commits: the entries, and what  *)
(* the provider answers to the request                                     *)
(***************************************************************************)
MaxFragments == 3    \* choices of the response to a direct call

Fragments == {None, Some(SummaryA), Some(<<"!">>)}
SummarizerResponses ==
    {Err(e) : e \in ProviderErrors}
      \cup {Ok(cs) : cs \in SeqsUpTo(Fragments, MaxFragments)}

InitSummarize ==
    /\ base_dir = Diaries
    /\ repo = "ok" /\ reflog = <<>>
    /\ wall = Wall0 /\ offset = 0 /\ days_to_include = 7
    /\ dirs = {} /\ files = <<>>
    /\ RunIdle
    /\ arg \in [commits : SeqsUpTo(StoreCommits, MaxEntries), response : SummarizerResponses]
    /\ ret = NoCall

\* summarizer.summarize_commits(&commits): the request it sent, what the
\* provider answered and what it returned
CallSummarizeCommits ==
    /\ ret' = [op |-> "summarize_commits", arg |-> arg.commits,
               sent |-> BuildRequest(arg.commits), response |-> arg.response,
               val |-> summarize_commits(arg.commits, arg.response)]
    /\ UNCHANGED <<world, wall, fs, run>>

NextSummarize == CallSummarizeCommits

SpecSummarize == InitSummarize /\ [][NextSummarize]_vars

(***************************************************************************)
(* Direct calls of Commit::to_string on commits of any i64 time.  A time   *)
(* is written as its day number and its second of the day (time = days *   *)
(* 86400 + sod), which keeps the times outside the years 1902..2038 within *)
(* the integers of the model checker.                                      *)
(***************************************************************************)
\* day numbers: around the first and the last day chrono represents, around
\* the years 0 and 9999, around the epoch, the day of T0, and far outside
DisplayDays ==
    {MinDay - 1, MinDay, -719529, -719528, -1, 0, T0 \div SecsPerDay,
     2932896, 2932897, MaxDay, MaxDay + 1, -2000000000, 2000000000}
DisplaySods == {0, 1, 3599, 43200, SecsPerDay - 1}
DisplayMessages == {<<>>, MsgA, <<"a", ":", " ", "b">>}

InitDisplay ==
    /\ base_dir = Diaries
    /\ repo = "ok" /\ reflog = <<>>
    /\ wall = Wall0 /\ offset = 0 /\ days_to_include = 7
    /\ dirs = {} /\ files = <<>>
    /\ RunIdle
    /\ arg \in [message : DisplayMessages, days : DisplayDays, sod : DisplaySods]
    /\ ret = NoCall

\* Commit::new(message, days * 86400 + sod).to_string()
CallDisplay ==
    /\ ret' = [op |-> "to_string", arg |-> arg,
               val |-> DisplayAt(arg.message, arg.days, arg.sod)]
    /\ UNCHANGED <<world, wall, fs, run>>

NextDisplay == CallDisplay

SpecDisplay == InitDisplay /\ [][NextDisplay]_vars

(***************************************************************************)
(* Properties                                                              *)
(***************************************************************************)
Last(s) == s[Len(s)]

RECURSIVE SplitLines(_)
\* the lines of a text: the pieces between its newlines
SplitLines(s) ==
    IF \A i \in 1..Len(s) : s[i] # NL THEN <<s>>
    ELSE LET k == CHOOSE i \in 1..Len(s) : s[i] = NL /\ \A j \in 1..(i - 1) : s[j] # NL
         IN  <<SubSeq(s, 1, k - 1)>> \o SplitLines(SubSeq(s, k + 1, Len(s)))

ScanCalled == ret.op = "get_commits_since" /\ repo = "ok"

\* C7: get_commits_since(t) on a readable repository succeeds with no entry
\* whose time is < t, and when t is greater than every record's time (a
\* bound in the future included) the result is Ok of the empty sequence.
C7_NoEntryBeforeBound ==
    ScanCalled =>
      /\ ret.val.ok
      /\ \A i \in 1..Len(ret.val.val) : ret.val.val[i].time >= ret.arg
      /\ (\A j \in 1..Len(reflog) : reflog[j].time < ret.arg) => ret.val = Ok(<<>>)

\* a call on a repository that has records, all of them before the bound
C7_Witness ==
    /\ ScanCalled
    /\ Len(reflog) >= 2
    /\ \A j \in 1..Len(reflog) : reflog[j].time < ret.arg
    /\ ret.val = Ok(<<>>)

\* the records at or after the bound t, in reflog order: the full scan with
\* filtering
FullScan(records, t) ==
    LET kept == SelectSeq(records, LAMBDA r : r.time >= t)
    IN  [i \in 1..Len(kept) |-> Commit(UnwrapOr(ReflogEntryMessage(kept[i]), NoMessage), kept[i].time)]

\* C8: for every reflog and every lower bound t the early-exit scan returns
\* exactly the entries with time >= t, as a full scan with filtering would.
C8_EarlyExitEqualsFullScan ==
    ScanCalled => ret.val = Ok(FullScan(reflog, ret.arg))

\* C17: get_commits_since on a repository that cannot be opened, or whose
\* HEAD reflog cannot be read, returns Err with the git2 error and no entry
\* list, whatever the lower bound.
C17_UnreadableRepositoryFails ==
    ret.op = "get_commits_since" /\ repo # "ok" =>
      /\ ~ret.val.ok
      /\ ret.val = Err(<<repo>>)
      /\ "val" \notin DOMAIN ret.val

\* a failed call for each of the two errors is reached; this one for the
\* repository that is not found, with a lower bound in the window
C17_Witness ==
    /\ ret.op = "get_commits_since"
    /\ repo = "git2: could not find repository"
    /\ ret.arg = T0
    /\ ~ret.val.ok

\* C19: the i-th entry get_commits_since returns has the message of the
\* i-th record, unchanged, and the committer time of that record; "No
\* message" when the record has no message; and a record without message
\* among the records at or after the bound that the scan reaches does not
\* end the call or the list.
C19_MessageAndTimeOfRecord ==
    ScanCalled =>
      /\ ret.val.ok
      /\ Len(ret.val.val) <= Len(reflog)
      /\ \A i \in 1..Len(ret.val.val) :
           /\ ret.val.val[i].time = reflog[i].time
           /\ ret.val.val[i].message =
                 (IF reflog[i].message.some THEN reflog[i].message.val ELSE NoMessage)
      /\ \A i \in 1..Len(reflog) :
           (\A j \in 1..i : reflog[j].time >= ret.arg) => i <= Len(ret.val.val)

\* the entry of each of the first n records, in the order of the records
EntriesOfFirst(records, n) ==
    [i \in 1..n |-> Commit(UnwrapOr(ReflogEntryMessage(records[i]), NoMessage), records[i].time)]

\* what get_commits_since returns for the reflog of the state and bound t
EntriesSince(t) == get_commits_since(repo, reflog, t).val

\* C26: for every reflog, get_commits_since(t) returns the entries of a
\* contiguous prefix of the records, in the order of the reflog (newest
\* record first), and the result is monotone in the bound: for t1 <= t2 the
\* result for t2 is a prefix of the result for t1.
C26_PrefixMonotoneInBound ==
    ScanCalled =>
      /\ ret.val.ok
      /\ Len(ret.val.val) <= Len(reflog)
      /\ ret.val.val = EntriesOfFirst(reflog, Len(ret.val.val))
      /\ \A t2 \in ScanBounds : ret.arg <= t2 => IsPrefix(EntriesSince(t2), ret.val.val)
      /\ \A t1 \in ScanBounds : t1 <= ret.arg => IsPrefix(ret.val.val, EntriesSince(t1))

\* a call that returns some records and not all, with a record at or after
\* the bound left behind the one that ended the scan, while a greater bound
\* returns fewer entries and a smaller bound returns more
C26_Witness ==
    /\ ScanCalled
    /\ ret.val.ok
    /\ Len(ret.val.val) >= 1
    /\ Len(ret.val.val) + 2 <= Len(reflog)
    /\ \E j \in (Len(ret.val.val) + 2)..Len(reflog) : reflog[j].time >= ret.arg
    /\ \E t2 \in ScanBounds : ret.arg < t2 /\ Len(EntriesSince(t2)) < Len(ret.val.val)
    /\ \E t1 \in ScanBounds : t1 < ret.arg /\ Len(EntriesSince(t1)) > Len(ret.val.val)

FileNameCalled == ret.op = "generate_file_name"

NoDash(s) == SelectSeq(s, LAMBDA c : c # "-")

\* C9: generate_file_name is base_dir, "/git-diary-", start_date without
\* its '-' characters, "-to-", end_date without its '-' characters, ".md";
\* it is decided by base_dir and the two dates alone, and every character
\* other than '-' is kept.
C9_FileName ==
    FileNameCalled =>
      ret.val = base_dir \o <<"/", "g", "i", "t", "-", "d", "i", "a", "r", "y", "-">>
                  \o NoDash(ret.arg.start_date) \o <<"-", "t", "o", "-">>
                  \o NoDash(ret.arg.end_date) \o <<".", "m", "d">>

\* a file name of a content with entries, a summary, a date with several
\* '-' and a date with '/'
C9_Witness ==
    /\ FileNameCalled
    /\ ret.arg.commits # <<>> /\ ret.arg.summary # <<>>
    /\ Cardinality({i \in 1..Len(ret.arg.start_date) : ret.arg.start_date[i] = "-"}) >= 2
    /\ \E i \in 1..Len(ret.arg.end_date) : ret.arg.end_date[i] = "/"
    /\ \E i \in 1..Len(ret.val) : i > Len(base_dir) + 1 /\ ret.val[i] = "/"

FormatCalled == ret.op = "format_markdown_content"

CommitLogsHeader == <<"#", "#", " ", "C", "o", "m", "m", "i", "t", " ", "L", "o", "g", "s">>
SummaryHeader == <<"#", "#", " ", "A", "I", "-", "g", "e", "n", "e", "r", "a", "t", "e",
                   "d", " ", "S", "u", "m", "m", "a", "r", "y">>

\* the index of the first line equal to `line`, 0 when there is none
FirstLine(lines, line) ==
    IF \E i \in 1..Len(lines) : lines[i] = line
    THEN CHOOSE i \in 1..Len(lines) : lines[i] = line /\ \A j \in 1..(i - 1) : lines[j] # line
    ELSE 0

\* the bullets of a rendered document: the non-empty lines between the
\* Commit Logs header and the summary header
Bullets(doc) ==
    LET lines == SplitLines(doc)
        from  == FirstLine(lines, CommitLogsHeader)
        to    == FirstLine(lines, SummaryHeader)
    IN  IF from = 0 \/ to < from THEN <<>>
        ELSE SelectSeq(SubSeq(lines, from + 1, to - 1), LAMBDA l : l # <<>>)

\* C10: the rendered document has one bullet per entry, and the i-th bullet
\* is "- " and the display form of the entry i-th from the end of the
\* input: none dropped, none twice, the order reversed.
C10_BulletsReversed ==
    FormatCalled =>
      LET n == Len(ret.arg.commits)
          b == Bullets(ret.val)
      IN  /\ Len(b) = n
          /\ \A i \in 1..n : b[i] = <<"-", " ">> \o Display(ret.arg.commits[n + 1 - i])

\* a rendering of three entries, not all alike
C10_Witness ==
    /\ FormatCalled
    /\ Len(ret.arg.commits) = 3
    /\ ret.arg.commits[1] # ret.arg.commits[3]
    /\ Len(Bullets(ret.val)) = 3

\* the timestamp of a bullet: the 19 characters after "- "
BulletStamp(bullet) == SubSeq(bullet, 3, 21)

\* the order of two timestamps of the pattern YYYY-MM-DD HH:MM:SS: the
\* order of the digits at the first place they differ
StampLeq(a, b) ==
    \/ a = b
    \/ LET k == CHOOSE i \in 1..Len(a) : a[i] # b[i] /\ \A j \in 1..(i - 1) : a[j] = b[j]
           rank(c) == CHOOSE d \in 0..9 : Digit(d) = c
       IN  rank(a[k]) < rank(b[k])

\* the timestamps of the bullets of a document do not decrease from top
\* to bottom
BulletsOldestFirst(doc) ==
    LET b == Bullets(doc)
    IN  \A i \in 1..(Len(b) - 1) : StampLeq(BulletStamp(b[i]), BulletStamp(b[i + 1]))

\* the times of the entries do not increase from first to last
NewestFirst(cs) == \A i \in 1..(Len(cs) - 1) : cs[i].time >= cs[i + 1].time

\* C21 as stated: whatever the order of the entries of the DiaryContent,
\* the timestamps of the bullets of the rendered document are in
\* non-decreasing order from top to bottom.
C21_AlwaysOldestFirst ==
    FormatCalled => BulletsOldestFirst(ret.val)

\* C21, amended: the timestamps of the bullets of the rendered document
\* are in non-decreasing order from top to bottom exactly when the times of
\* the entries of the DiaryContent are in non-increasing order (newest
\* first, as the scan of a reflog with ordered times returns them): the
\* rendering reverses, it does not sort.
C21_OldestFirstIffNewestFirstInput ==
    FormatCalled => (BulletsOldestFirst(ret.val) <=> NewestFirst(ret.arg.commits))

\* a rendering of three entries that arrived newest first, not all of the
\* same time
C21_Witness ==
    /\ FormatCalled
    /\ Len(ret.arg.commits) = 3
    /\ NewestFirst(ret.arg.commits)
    /\ ret.arg.commits[1].time > ret.arg.commits[3].time
    /\ BulletsOldestFirst(ret.val)

TitleLine(content) ==
    <<"#", " ", "G", "i", "t", " ", "D", "i", "a", "r", "y", " ", "(">>
      \o content.start_date \o <<" ", EnDash, " ">> \o content.end_date \o <<")">>

\* C11: the rendered document is, line by line: the title line
\* "# Git Diary (<start_date> - <end_date>)" (with an en dash), an empty
\* line, the line "## Commit Logs", an empty line, one bullet
\* "- <display form>" per entry, two empty lines, the line
\* "## AI-generated Summary", an empty line, and then the summary, verbatim,
\* and a final newline; the Commit Logs header is before the summary header
\* also without entries and with an empty summary.
C11_DocumentLayout ==
    FormatCalled =>
      LET n    == Len(ret.arg.commits)
          sm   == ret.arg.summary
          doc  == ret.val
          head == SplitLines(SubSeq(doc, 1, Len(doc) - Len(sm) - 1))
      IN  /\ Len(doc) > Len(sm)
          /\ SubSeq(doc, Len(doc) - Len(sm), Len(doc)) = sm \o <<NL>>
          /\ Len(head) = n + 9
          /\ head[1] = TitleLine(ret.arg)
          /\ head[2] = <<>>
          /\ head[3] = CommitLogsHeader
          /\ head[4] = <<>>
          /\ \A i \in 1..n : /\ SubSeq(head[4 + i], 1, 2) = <<"-", " ">>
                              /\ \E j \in 1..n : head[4 + i] = <<"-", " ">> \o Display(ret.arg.commits[j])
          /\ head[n + 5] = <<>>
          /\ head[n + 6] = <<>>
          /\ head[n + 7] = SummaryHeader
          /\ head[n + 8] = <<>>
          /\ head[n + 9] = <<>>
          /\ FirstLine(head, CommitLogsHeader) = 3
          /\ FirstLine(head, SummaryHeader) = n + 7

\* a rendering of two entries and a summary of several lines
C11_Witness ==
    /\ FormatCalled
    /\ Len(ret.arg.commits) = 2
    /\ ret.arg.summary = SummaryB
    /\ FirstLine(SplitLines(ret.val), CommitLogsHeader) = 3
    /\ FirstLine(SplitLines(ret.val), SummaryHeader) = 9

\* a rendering without entries and with an empty summary
C11_WitnessEmpty ==
    /\ FormatCalled
    /\ ret.arg.commits = <<>> /\ ret.arg.summary = <<>>
    /\ FirstLine(SplitLines(ret.val), CommitLogsHeader) = 3
    /\ FirstLine(SplitLines(ret.val), SummaryHeader) = 7

SaveCalled == ret.op = "save_diary"

\* C12: after a successful save_diary(content) the path returned is
\* generate_file_name(content) and the file at that path holds
\* format_markdown_content(content) and nothing else, whatever the path held
\* before.
C12_SavedIsRendered ==
    SaveCalled /\ ret.val.ok =>
      /\ ret.val.val = generate_file_name(base_dir, ret.arg)
      /\ ret.val.val \in DOMAIN files
      /\ files[ret.val.val] = format_markdown_content(ret.arg)

\* a successful save on a path that held another, longer document
C12_Witness ==
    /\ SaveCalled /\ ret.val.ok
    /\ ret.val.val \in DOMAIN ret.files
    /\ Len(ret.files[ret.val.val]) > Len(files[ret.val.val])
    /\ files[ret.val.val] = format_markdown_content(ret.arg)

\* the paths the calls so far were to
SavedPaths == {generate_file_name(base_dir, calls[i].arg) : i \in 1..Len(calls)}

\* the last call to the path p
LastSaveTo(p) ==
    CHOOSE i \in 1..Len(calls) :
      /\ generate_file_name(base_dir, calls[i].arg) = p
      /\ \A j \in (i + 1)..Len(calls) : generate_file_name(base_dir, calls[j].arg) # p

\* C24: after a sequence of save_diary calls that all succeeded, on a
\* DiaryStorageImpl that started without files, the files are those at the
\* paths saved to and each holds format_markdown_content of the last
\* content saved to its path; a successful save of the content that the
\* successful call before it saved leaves the files and directories as
\* they were; and a save, successful or not, leaves every file at another
\* path than its own as it was and creates no file at another path.
C24_LastSavePerPath ==
    SaveCalled =>
      LET own == generate_file_name(base_dir, ret.arg)
          n   == Len(calls)
      IN  /\ (\A i \in 1..n : calls[i].ret.ok) =>
                /\ DOMAIN files = SavedPaths
                /\ \A p \in SavedPaths :
                     files[p] = format_markdown_content(calls[LastSaveTo(p)].arg)
          /\ (n >= 2 /\ calls[n].ret.ok /\ calls[n - 1].ret.ok /\ calls[n].arg = calls[n - 1].arg) =>
                files = ret.files /\ dirs = ret.dirs
          /\ DOMAIN files \subseteq DOMAIN ret.files \cup {own}
          /\ \A q \in DOMAIN ret.files :
                q # own => q \in DOMAIN files /\ files[q] = ret.files[q]

\* two successful saves of different contents to one path, after which the
\* file holds the second
C24_Witness ==
    /\ SaveCalled
    /\ Len(calls) = 2
    /\ calls[1].ret.ok /\ calls[2].ret.ok
    /\ calls[1].ret.val = calls[2].ret.val
    /\ calls[1].arg # calls[2].arg
    /\ files[calls[2].ret.val] = format_markdown_content(calls[2].arg)
    /\ files[calls[2].ret.val] # format_markdown_content(calls[1].arg)

\* two successful saves of the same content
C24_WitnessTwice ==
    /\ SaveCalled
    /\ Len(calls) = 2
    /\ calls[1].ret.ok /\ calls[2].ret.ok
    /\ calls[1].arg = calls[2].arg
    /\ files = ret.files

\* a successful save to another path than the one before
C24_WitnessOtherPath ==
    /\ SaveCalled
    /\ Len(calls) = 2
    /\ calls[1].ret.ok /\ calls[2].ret.ok
    /\ calls[1].ret.val # calls[2].ret.val
    /\ Cardinality(DOMAIN files) = 2

\* C13: a save_diary in which no io call fails, on a base directory that
\* does not exist, creates the base directory with every missing ancestor
\* and returns Ok with the document written; on a base directory that
\* exists it does not fail in creating the directory.
C13_CreatesBaseDirAndSucceeds ==
    SaveCalled =>
      IF PathExists(ret.dirs, ret.files, base_dir)
      THEN ret.val.ok \/ ret.val.err # StorageError("Failed to create diary directory")
      ELSE ret.fault = "none" =>
             /\ CreateDirAll({}, base_dir) \subseteq dirs
             /\ ret.val.ok
             /\ ret.val.val \in DOMAIN files

SummarizeCalled == ret.op = "summarize_commits"

\* C15: summarize_commits on a response of the provider returns Ok of the
\* contents of all its choices, in the order of the response, one after the
\* other without separator, "No content" standing for each choice that has
\* no content; the empty string when the response has no choice.
C15_Concatenation ==
    SummarizeCalled /\ ret.response.ok =>
      LET cs      == ret.response.val
          frag(i) == IF cs[i].some THEN cs[i].val ELSE NoContent
          start(i) == Len(Flatten([j \in 1..(i - 1) |-> frag(j)]))
      IN  /\ ret.val.ok
          /\ ret.val.val = Flatten([i \in 1..Len(cs) |-> frag(i)])
          /\ \A i \in 1..Len(cs) :
                SubSeq(ret.val.val, start(i) + 1, start(i) + Len(frag(i))) = frag(i)
          /\ cs = <<>> => ret.val.val = <<>>

\* a response of three choices, the second without content, the first and
\* the third different
C15_Witness ==
    /\ SummarizeCalled /\ ret.response.ok /\ ret.val.ok
    /\ Len(ret.response.val) = 3
    /\ ~ret.response.val[2].some
    /\ ret.response.val[1].some /\ ret.response.val[3].some
    /\ ret.response.val[1] # ret.response.val[3]

\* C16: the request of summarize_commits has exactly two messages: the
\* first is the fixed instruction, whatever the entries; the second ends
\* with one line per entry, the display form of the i-th entry on the i-th
\* of these lines (the order of the input, none left out).
C16_TwoMessages ==
    SummarizeCalled =>
      LET n     == Len(ret.arg)
          lines == SplitLines(ret.sent[2])
      IN  /\ Len(ret.sent) = 2
          /\ ret.sent[1] = Instruction
          /\ Len(lines) >= n
          /\ \A i \in 1..n : lines[Len(lines) - n + i] = Display(ret.arg[i])

\* a request for three entries, the first and the last different
C16_Witness ==
    /\ SummarizeCalled
    /\ Len(ret.arg) = 3
    /\ ret.arg[1] # ret.arg[3]
    /\ Last(SplitLines(ret.sent[2])) = Display(ret.arg[3])

DisplayCalled == ret.op = "to_string"

IsDigit(c) == c \in {"0", "1", "2", "3", "4", "5", "6", "7", "8", "9"}

\* s is "-MM-DD HH:MM:SS"
MonthToSecondPattern(s) ==
    /\ Len(s) = 15
    /\ \A i \in 1..15 :
         IF i \in {1, 4} THEN s[i] = "-"
         ELSE IF i = 7 THEN s[i] = " "
         ELSE IF i \in {10, 13} THEN s[i] = ":"
         ELSE IsDigit(s[i])

\* s is "YYYY-MM-DD HH:MM:SS"
TimestampPattern(s) ==
    /\ Len(s) = 19
    /\ \A i \in 1..4 : IsDigit(s[i])
    /\ MonthToSecondPattern(SubSeq(s, 5, 19))

\* s is a sign, four or more digits of year, and "-MM-DD HH:MM:SS"
SignedYearPattern(s, sign) ==
    /\ Len(s) >= 20
    /\ s[1] = sign
    /\ \A i \in 2..(Len(s) - 15) : IsDigit(s[i])
    /\ MonthToSecondPattern(SubSeq(s, Len(s) - 14, Len(s)))

\* what a display form has before ": " and the message
Stamp(text, message) == SubSeq(text, 1, Len(text) - Len(message) - 2)

\* the times DateTime::from_timestamp converts: the years -262143..262142
Convertible(days) == days >= MinDay /\ days <= MaxDay

\* the days of the years 0000..9999
FourDigitYear(days) == days >= -719528 /\ days <= 2932896

\* C18 as stated: the display form of a commit of any time is a timestamp,
\* ": " and the message; the timestamp has the pattern YYYY-MM-DD HH:MM:SS
\* when the time can be converted to a date and is "Invalid Date" when it
\* cannot.
C18_AlwaysPatternOrInvalidDate ==
    DisplayCalled =>
      LET stamp == Stamp(ret.val, ret.arg.message)
      IN  /\ ret.val = stamp \o <<":", " ">> \o ret.arg.message
          /\ IF Convertible(ret.arg.days) THEN TimestampPattern(stamp)
                                          ELSE stamp = InvalidDate

\* C18, amended: the display form of a commit of any time is a timestamp,
\* ": " and the message; the timestamp is "Invalid Date" exactly when the
\* time cannot be converted to a date; it has the pattern
\* YYYY-MM-DD HH:MM:SS for the times of the years 0000..9999, and for the
\* other times that can be converted the year is written with its sign and
\* four or more digits; the time 2024-01-01T00:00:00Z is displayed as
\* "2024-01-01 00:00:00".
C18_DisplayForm ==
    DisplayCalled =>
      LET stamp == Stamp(ret.val, ret.arg.message)
          days  == ret.arg.days
      IN  /\ ret.val = stamp \o <<":", " ">> \o ret.arg.message
          /\ (stamp = InvalidDate) <=> ~Convertible(days)
          /\ FourDigitYear(days) => TimestampPattern(stamp)
          /\ Convertible(days) /\ ~FourDigitYear(days) =>
                SignedYearPattern(stamp, IF days < 0 THEN "-" ELSE "+")
          /\ days = T0 \div SecsPerDay /\ ret.arg.sod = 0 =>
                stamp = <<"2", "0", "2", "4", "-", "0", "1", "-", "0", "1", " ",
                          "0", "0", ":", "0", "0", ":", "0", "0">>

\* the display form of a commit of 10000-01-01T00:59:59Z
C18_Witness ==
    /\ DisplayCalled
    /\ ret.arg.days = 2932897 /\ ret.arg.sod = 3599 /\ ret.arg.message = MsgA
    /\ SubSeq(ret.val, 1, 6) = <<"+", "1", "0", "0", "0", "0">>

(***************************************************************************)
(* Properties of generate_diary                                            *)
(***************************************************************************)
Done == pc = "done"
Ops == [i \in 1..Len(calls) |-> calls[i].op]
CallsOf(op) == {i \in 1..Len(calls) : calls[i].op = op}
FailedCalls == {i \in 1..Len(calls) : ~calls[i].ret.ok}
Stages == <<"now", "days_ago", "get_commits_since", "format_commit_logs",
            "summarize_commits", "save_diary">>

\* C1: a failing stage ends the run: once get_commits_since or
\* summarize_commits has failed, no further call is made (no
\* summarize_commits, no save_diary) and the filesystem is not written.
C1_FailureAborts ==
    [][(\E i \in FailedCalls : calls[i].op \in {"get_commits_since", "summarize_commits"})
          => /\ calls' = calls
             /\ dirs' = dirs /\ files' = files]_vars

\* a run ended by a failed summarize_commits after a fetch of two entries
C1_Witness ==
    /\ Done
    /\ \E i \in FailedCalls : calls[i].op = "summarize_commits" /\ Len(calls[i].arg) = 2
    /\ CallsOf("save_diary") = {}

\* C2: the error generate_diary returns is the error the failing call
\* returned, whichever of the three stages failed, and a run in which a
\* call failed does not return Ok.
C2_ErrorUnchanged ==
    Done /\ FailedCalls # {} =>
      /\ ~result.ok
      /\ \A i \in FailedCalls : result = calls[i].ret

\* a run ended by a write that failed inside save_diary
C2_Witness ==
    /\ Done
    /\ Last(calls).op = "save_diary"
    /\ ~result.ok
    /\ result.err = StorageError("Failed to write to diary file")

\* C3: a run that fails, inside save_diary included, leaves the filesystem
\* as it was: no directory created, the target path absent or holding its
\* earlier content.
C3_NoPartialDocument ==
    [][(pc' = "done" /\ ~result'.ok) => (dirs' = dirs /\ files' = files)]_vars

\* C4: a fetch that returns no entries does not end the run: summarize_commits
\* is called with the empty sequence, and what it returns is saved in a
\* DiaryContent without entries; the run succeeds when both calls do.
C4_EmptyNotShortCircuited ==
    Done /\ (\E i \in CallsOf("get_commits_since") : calls[i].ret = Ok(<<>>)) =>
      /\ \E i \in CallsOf("summarize_commits") :
           /\ calls[i].arg = <<>>
           /\ calls[i].ret.ok =>
                \E j \in CallsOf("save_diary") :
                  /\ j > i
                  /\ calls[j].arg.commits = <<>>
                  /\ calls[j].arg.summary = calls[i].ret.val
                  /\ calls[j].ret.ok => result.ok

\* a successful run whose fetch found records, none of them in the window
C4_Witness ==
    /\ Done /\ result.ok
    /\ reflog # <<>>
    /\ \E i \in CallsOf("get_commits_since") : calls[i].ret = Ok(<<>>)
    /\ \E j \in CallsOf("save_diary") : calls[j].arg.commits = <<>>

\* C5: the value of a successful run is the path save_diary returned for
\* the DiaryContent of that run.
C5_ReturnsSavedPath ==
    Done /\ result.ok =>
      /\ Last(calls).op = "save_diary"
      /\ result = Last(calls).ret
      /\ result.val = generate_file_name(base_dir, Last(calls).arg)

\* a successful run
C5_Witness ==
    /\ Done /\ result.ok
    /\ Last(calls).op = "save_diary"
    /\ Len(Last(calls).arg.commits) = 2

\* C6: the calls of a run are made in the order now, days_ago,
\* get_commits_since, format_commit_logs, summarize_commits, save_diary, each
\* at most once and each after the one before it succeeded; a run that is
\* over made all of them and returned what save_diary returned, or stopped
\* at the call that failed.
C6_StageOrder ==
    /\ Len(calls) <= Len(Stages)
    /\ Ops = SubSeq(Stages, 1, Len(calls))
    /\ \A i \in FailedCalls : i = Len(calls)
    /\ Done => (Len(calls) = Len(Stages) \/ FailedCalls # {})

\* a run that made all six calls
C6_Witness == Done /\ Ops = Stages /\ result.ok

\* the value the only call of `op` returned
Reading(op) == calls[CHOOSE i \in CallsOf(op) : TRUE].ret.val

\* the local calendar dates of the instants the clock of the model is read
\* at, Wall0 and the second after it: 2024-01-07 18:00 UTC, 2024-01-08
\* 03:00 at UTC+9
DateOfNow ==
    IF offset = 0 THEN <<"2", "0", "2", "4", "-", "0", "1", "-", "0", "7">>
                  ELSE <<"2", "0", "2", "4", "-", "0", "1", "-", "0", "8">>

\* C20: now() and days_ago(days_to_include) are each read once in a run;
\* the lower bound get_commits_since is called with is the epoch second of
\* the days_ago reading; and the DiaryContent that is saved has the local
\* calendar date (YYYY-MM-DD) of the days_ago reading as start_date and of
\* the now() reading as end_date, with entries or without.
C20_WindowFromReadings ==
    /\ Cardinality(CallsOf("now")) <= 1
    /\ Cardinality(CallsOf("days_ago")) <= 1
    /\ \A i \in CallsOf("days_ago") : calls[i].arg = days_to_include
    /\ \A i \in CallsOf("get_commits_since") : calls[i].arg = Reading("days_ago")
    /\ \A i \in CallsOf("save_diary") :
         /\ calls[i].arg.end_date = LocalDate(Reading("now"), offset)
         /\ calls[i].arg.start_date = LocalDate(Reading("days_ago"), offset)
         /\ calls[i].arg.end_date = DateOfNow
         /\ days_to_include = 0 => calls[i].arg.start_date = DateOfNow
         /\ days_to_include = 7 =>
               calls[i].arg.start_date =
                 (IF offset = 0 THEN <<"2", "0", "2", "3", "-", "1", "2", "-", "3", "1">>
                                ELSE <<"2", "0", "2", "4", "-", "0", "1", "-", "0", "1">>)

\* a run at UTC+9 over 7 days that saved two entries, the clock having
\* advanced between the two readings
C20_Witness ==
    /\ Done /\ result.ok
    /\ offset = 9 * 3600 /\ days_to_include = 7
    /\ Reading("days_ago") + 7 * SecsPerDay > Reading("now")
    /\ Len(Last(calls).arg.commits) = 2
    /\ Last(calls).arg.start_date = <<"2", "0", "2", "4", "-", "0", "1", "-", "0", "1">>
    /\ Last(calls).arg.end_date = <<"2", "0", "2", "4", "-", "0", "1", "-", "0", "8">>

\* a run that saved the same dates without entries
C20_WitnessEmpty ==
    /\ Done /\ result.ok
    /\ offset = 9 * 3600 /\ days_to_include = 7
    /\ Last(calls).arg.commits = <<>>
    /\ Last(calls).arg.start_date = <<"2", "0", "2", "4", "-", "0", "1", "-", "0", "1">>
    /\ Last(calls).arg.end_date = <<"2", "0", "2", "4", "-", "0", "1", "-", "0", "8">>

\* C22: a run calls save_diary at most once, with a DiaryContent whose
\* commits are the sequence get_commits_since returned, element by element
\* in the same order, which is also the sequence summarize_commits was
\* called with, and whose summary is the string summarize_commits returned.
C22_ContentAsFetchedAndSummarized ==
    /\ Cardinality(CallsOf("save_diary")) <= 1
    /\ \A i \in CallsOf("summarize_commits") :
         calls[i].arg = Reading("get_commits_since")
    /\ \A i \in CallsOf("save_diary") :
         /\ calls[i].arg.commits = Reading("get_commits_since")
         /\ Len(calls[i].arg.commits) = Len(Reading("get_commits_since"))
         /\ \A k \in 1..Len(calls[i].arg.commits) :
              calls[i].arg.commits[k] = Reading("get_commits_since")[k]
         /\ \E j \in CallsOf("summarize_commits") :
              /\ j < i
              /\ calls[j].arg = calls[i].arg.commits
              /\ calls[j].ret = Ok(calls[i].arg.summary)

\* a run that saved two different entries and a summary that is not empty
C22_Witness ==
    /\ Done /\ result.ok
    /\ Len(Last(calls).arg.commits) = 2
    /\ Last(calls).arg.commits[1] # Last(calls).arg.commits[2]
    /\ Last(calls).arg.summary # <<>>
    /\ Last(calls).arg.commits = Reading("get_commits_since")

\* the header of the preview of a run over 0, 1 or 7 days
PreviewHeader ==
    <<"L", "a", "s", "t", " ">>
      \o (CASE days_to_include = 0 -> <<"0">>
            [] days_to_include = 1 -> <<"1">>
            [] days_to_include = 7 -> <<"7">>)
      \o <<" ", "d", "a", "y", "s", " ", "c", "o", "m", "m", "i", "t", "s", ":">>

\* the lines of a preview after its header, without the empty piece after
\* the last newline
PreviewEntries(lines) == SubSeq(lines, 2, Len(lines) - 1)

\* the timestamps at the head of the lines do not decrease from top to
\* bottom
LinesOldestFirst(lines) ==
    \A k \in 1..(Len(lines) - 1) :
      StampLeq(SubSeq(lines[k], 1, 19), SubSeq(lines[k + 1], 1, 19))

\* what C23 says of the i-th call, a preview of these lines, but for the
\* order of the lines: it is made right after a fetch that succeeded, of the
\* entries fetched, and before summarize_commits is called with these same
\* entries; it is printed; its first line is
\* "Last <days_to_include> days commits:", and one line per entry follows.
PreviewFrame(i, lines) ==
    LET cs == calls[i].arg
    IN  /\ i > 1
        /\ calls[i - 1].op = "get_commits_since"
        /\ calls[i - 1].ret = Ok(cs)
        /\ \A j \in CallsOf("summarize_commits") : j > i /\ calls[j].arg = cs
        /\ \A j \in CallsOf("save_diary") : calls[j].arg.commits = cs
        /\ stdout # <<>> /\ stdout[1] = calls[i].ret.val
        /\ lines[1] = PreviewHeader
        /\ Len(lines) = Len(cs) + 2
        /\ Last(lines) = <<>>
        /\ \A k \in 1..Len(cs) : \E m \in 1..Len(cs) : lines[k + 1] = Display(cs[m])

\* C23 as stated: every preview is as PreviewFrame says, and the
\* timestamps of its entry lines are in non-decreasing order (oldest first).
C23_PreviewOldestFirst ==
    \A i \in CallsOf("format_commit_logs") :
      \E lines \in {SplitLines(calls[i].ret.val)} :
        /\ PreviewFrame(i, lines)
        /\ LinesOldestFirst(PreviewEntries(lines))

\* C23, amended: every preview is as PreviewFrame says; its k-th entry line
\* is the display form of the entry k-th from the end of the fetched
\* sequence; and so the timestamps of its entry lines are in
\* non-decreasing order exactly when the entries were fetched newest first.
C23_PreviewReversed ==
    \A i \in CallsOf("format_commit_logs") :
      \E lines \in {SplitLines(calls[i].ret.val)} :
        LET cs == calls[i].arg
        IN  /\ PreviewFrame(i, lines)
            /\ \A k \in 1..Len(cs) : lines[k + 1] = Display(cs[Len(cs) + 1 - k])
            /\ LinesOldestFirst(PreviewEntries(lines)) <=> NewestFirst(cs)

\* a run over 7 days that was summarised after a preview of two entries of
\* different times, fetched newest first
C23_Witness ==
    /\ CallsOf("summarize_commits") # {}
    /\ days_to_include = 7
    /\ \E i \in CallsOf("format_commit_logs") :
         /\ Len(calls[i].arg) = 2
         /\ calls[i].arg[1].time > calls[i].arg[2].time
         /\ LinesOldestFirst(PreviewEntries(SplitLines(calls[i].ret.val)))

\* a run whose preview has the header alone
C23_WitnessEmpty ==
    /\ reflog # <<>>
    /\ \E i \in CallsOf("format_commit_logs") :
         calls[i].arg = <<>> /\ calls[i].ret.val = PreviewHeader \o <<NL>>

\* C25: every entry of the DiaryContent a run saves has its time inside
\* the window of the run: not before the days_ago reading and not after
\* the now() reading.
C25_EntriesInsideWindow ==
    \A i \in CallsOf("save_diary") :
      \A k \in 1..Len(calls[i].arg.commits) :
        /\ Reading("days_ago") <= calls[i].arg.commits[k].time
        /\ calls[i].arg.commits[k].time <= Reading("now")

\* C14: the days_ago(days_to_include) reading of a run is not later than its
\* now() reading, for every days_to_include >= 0: the start of the window
\* is never after its end.
C14_StartNotAfterEnd ==
    (pc \notin {"now", "days_ago"} /\ days_to_include >= 0) => days_ago <= now

====
